---- MODULE Spec2Model ----
(***************************************************************************)
(* CareCred backend: session lifecycle, signature collection, ledger       *)
(* settlement and credit award, as the Python sources implement them.      *)
(*                                                                         *)
(* The service classes (SessionService, SignatureService, SolanaService,   *)
(* BlockchainVerificationService, CreditService) and the model methods     *)
(* consist of bodies that are the single statement `pass`: a call runs,    *)
(* touches nothing and returns None.  Each such method is an operator      *)
(* that maps the store to the store it leaves behind and to its return     *)
(* value.  The controllers are modelled statement by statement.  The       *)
(* records of the injected database are objects of the pydantic model      *)
(* classes; Init draws them from small sets through the constructors.      *)
(***************************************************************************)
EXTENDS Integers, FiniteSets, Sequences, TLC

VARIABLES
    session,    \* session id -> Session object
    request,    \* session id -> SignatureRequest object of that session
    tx,         \* session id -> state of its ledger transaction, as the ledger reports it
    account,    \* the student's CreditAccount
    now,        \* datetime.utcnow()
    proc        \* per request in flight: the operation, its inputs, its outcome

vars == <<session, request, tx, account, now, proc>>

----------------------------------------------------------------------------
(* Bounds of the model *)

MaxTime == 3
MaxAmount == 2
MaxConfirmations == 3
MaxBatch == 2

(* Values *)

NoValue == "None"
SessionIds == {"s1", "s2"}
Procs == {"p1", "p2"}

StudentId == "student"
SeniorId == "senior"
AdminId == "admin"
Users == {StudentId, SeniorId, AdminId}

NoCode == "-"
NoTime == 0
HTTP_200 == "200"
HTTP_201 == "201"
HTTP_400 == "400"
HTTP_422 == "422"
HTTP_500 == "500"

REQUESTED == "requested"
APPROVED == "approved"
SCHEDULED == "scheduled"
CHECKED_IN == "checked_in"
IN_PROGRESS == "in_progress"
COMPLETED == "completed"
CANCELLED == "cancelled"
DISPUTED == "disputed"

SessionStatus ==
    {REQUESTED, APPROVED, SCHEDULED, CHECKED_IN, IN_PROGRESS, COMPLETED, CANCELLED, DISPUTED}

NoBody == [kind |-> "none"]

Idle == [op |-> "idle", phase |-> "idle", sid |-> NoValue, user |-> NoValue,
         arg |-> NoValue, at |-> NoTime, amount |-> 0, cond |-> NoValue,
         code |-> NoCode, ret |-> NoValue, body |-> NoBody]

Pending(o, s, u, a) ==
    [op |-> o, phase |-> "pending", sid |-> s, user |-> u, arg |-> a, at |-> NoTime,
     amount |-> 0, cond |-> NoValue, code |-> NoCode, ret |-> NoValue, body |-> NoBody]

(* A finished call: c the HTTP status (NoCode for a direct call of a        *)
(* service method), r the value returned, b the object in the response.     *)
Done(o, s, u, a, c, r, b) ==
    [op |-> o, phase |-> "done", sid |-> s, user |-> u, arg |-> a, at |-> NoTime,
     amount |-> 0, cond |-> NoValue, code |-> c, ret |-> r, body |-> b]

(* The same, with the clock reading at which the call ran *)
DoneAt(o, s, u, a, c, r, b, t) == [Done(o, s, u, a, c, r, b) EXCEPT !.at = t]

(* The same, with the credit amount the call was given *)
DoneAmount(o, s, u, a, c, r, b, amt) == [Done(o, s, u, a, c, r, b) EXCEPT !.amount = amt]

(* The same, with what the ledger did while the call ran *)
DoneCond(o, s, u, a, c, r, b, cnd) == [Done(o, s, u, a, c, r, b) EXCEPT !.cond = cnd]

(* A value a Python `await` accepts.  The service methods are plain `def`s  *)
(* (or coroutines that return None), so what the controllers await is the   *)
(* returned value itself.                                                   *)
IsAwaitable(v) == FALSE

Truthy(v) == v \notin {NoValue, "False"}

----------------------------------------------------------------------------
(* Models/session.py: Session.  Fields not given to the constructor take    *)
(* the class defaults.                                                      *)

NoAmount == 0

Session(st, cin, cout) ==
    [status |-> st,
     scheduled_start_time |-> NoTime,
     scheduled_end_time |-> NoTime,
     check_in_location |-> NoValue,
     check_out_location |-> NoValue,
     check_in_time |-> cin,
     check_out_time |-> cout,
     actual_duration_hours |-> NoAmount,
     signature_request_id |-> NoValue,
     student_signature |-> NoValue,
     senior_signature |-> NoValue,
     session_hash |-> NoValue,
     blockchain_verified |-> FALSE,
     credit_amount |-> NoAmount,
     credit_disbursed |-> FALSE]

(* Models/credit.py: CreditAccount *)
CreditAccount(earned) == [total_credits_earned |-> earned, available_balance |-> earned]

(* Models/blockchain.py: TransactionStatus, BlockchainTransaction.  NoTx    *)
(* stands for a session that has no transaction.                            *)
TX_PENDING == "pending"
TX_CONFIRMED == "confirmed"
TX_FAILED == "failed"
TX_REJECTED == "rejected"
TransactionStatus == {TX_PENDING, TX_CONFIRMED, TX_FAILED, TX_REJECTED}

(* Models/blockchain.py: SessionLog, the part of a transaction that holds   *)
(* the session's hash and the two signatures.                               *)
SessionLog(hash, student_sig, senior_sig) ==
    [session_hash |-> hash, student_signature |-> student_sig, senior_signature |-> senior_sig]

NoTx == [status |-> NoValue, retry_count |-> 0, confirmations |-> 0,
         session_log |-> SessionLog(NoValue, NoValue, NoValue)]

BlockchainTransaction(st) ==
    [status |-> st, retry_count |-> 0, confirmations |-> 0,
     session_log |-> SessionLog("hash", "sigA", "sigB")]

(* Models/blockchain.py: BlockchainConfig.max_retries *)
max_retries == 3

(* Services/credit_service.py: BlockchainIntegrationService            *)
(* .confirmation_blocks, the number of confirmations a transaction needs *)
confirmation_blocks == 3

----------------------------------------------------------------------------
(* Services/session_service.py: SessionService.  Every method body is      *)
(* `pass`.  An operator gives the store the call leaves and what it        *)
(* returns.                                                                *)

SessionServiceMethods ==
    {"create_session_request", "respond_to_session_request", "schedule_session",
     "cancel_session", "reschedule_session", "check_in_session", "check_out_session",
     "get_active_sessions", "get_upcoming_sessions", "get_session_history",
     "submit_session_rating", "verify_session_location", "detect_session_anomalies",
     "extend_session", "emergency_end_session", "calculate_session_credits",
     "get_session_analytics", "get_session_details", "complete_session_with_blockchain",
     "initiate_blockchain_signature_collection", "finalize_session_on_blockchain",
     "verify_session_blockchain_integrity", "get_session_blockchain_proof",
     "prepare_session_for_blockchain", "handle_blockchain_failure",
     "retry_failed_blockchain_operations", "bulk_update_session_status"}

AuthenticationServiceMethods ==
    {"register_student", "register_senior", "register_admin", "login", "logout",
     "refresh_token", "verify_email", "reset_password_request", "reset_password",
     "change_password", "validate_token", "check_login_attempts", "lock_account",
     "unlock_account", "get_login_history", "get_security_events", "generate_jwt_token",
     "generate_refresh_token", "hash_password", "verify_password",
     "validate_password_strength"}

cancel_session(sess, sid, user_id, reason) ==
    [store |-> sess, ret |-> NoValue]

emergency_end_session(sess, sid, admin_id, reason) ==
    [store |-> sess, ret |-> NoValue]

bulk_update_session_status_any_state(sess, sids, new_status, admin_id) ==
    [store |-> [s \in SessionIds |->
                    IF s \in sids THEN [sess[s] EXCEPT !.status = new_status] ELSE sess[s]],
     ret |-> "True"]

bulk_update_session_status(sess, sids, new_status, admin_id) ==
    [store |-> sess, ret |-> NoValue]

(* SessionMonitoringService.monitor_active_sessions *)
monitor_active_sessions(sess) ==
    [store |-> sess, ret |-> NoValue]

check_in_session_unguarded(sess, sid, user_id, gps_location, t) ==
    [store |-> [sess EXCEPT ![sid].status = IN_PROGRESS, ![sid].check_in_time = t],
     ret |-> "True"]

check_in_session(sess, sid, user_id, gps_location, t) ==
    [store |-> sess, ret |-> NoValue]

check_out_session_unguarded(sess, sid, user_id, gps_location, t) ==
    [store |-> [sess EXCEPT ![sid].status = COMPLETED,
                            ![sid].check_out_time = t,
                            ![sid].check_out_location = gps_location,
                            ![sid].actual_duration_hours = 1,
                            ![sid].credit_amount = 1],
     ret |-> "True"]

check_out_session(sess, sid, user_id, gps_location, t) ==
    [store |-> sess, ret |-> NoValue]

Locations == {"at_address", "far_away"}

(* SessionService.__init__: gps_verification_radius, in metres *)
gps_verification_radius == 50

(* Distance of a location from the senior's registered address, in metres *)
DistanceOf(gps_location) == IF gps_location = "at_address" THEN 0 ELSE 500

WithinRadius(gps_location) == DistanceOf(gps_location) <= gps_verification_radius

(* The pair of stores a completion works on *)
Records(sess, reqs) == [session |-> sess, request |-> reqs]

complete_session_with_blockchain(records, sid, completing_user_id, gps_location) ==
    [store |-> records, ret |-> NoValue]

initiate_blockchain_signature_collection(records, sid) ==
    [store |-> records, ret |-> NoValue]

----------------------------------------------------------------------------
(* Direct calls of the service methods *)

OtherSessionVars == <<request, tx, account, now>>

Free(p) == proc[p].phase /= "pending"

(* cancel_session called by one of `callers` with one of `reasons` *)
CancelSessionWith(p, callers, reasons) ==
    \E s \in SessionIds, u \in callers, reason \in reasons :
        LET r == cancel_session(session, s, u, reason) IN
        /\ Free(p)
        /\ session' = r.store
        /\ proc' = [proc EXCEPT ![p] = Done("cancel_session", s, u, reason, NoCode, r.ret, NoBody)]
        /\ UNCHANGED OtherSessionVars

CancelSession(p) == CancelSessionWith(p, Users, {"reason"})

EmergencyEndSession(p) ==
    \E s \in SessionIds :
        LET r == emergency_end_session(session, s, AdminId, "reason") IN
        /\ Free(p)
        /\ session' = r.store
        /\ proc' = [proc EXCEPT ![p] =
                        Done("emergency_end_session", s, AdminId, NoValue, NoCode, r.ret, NoBody)]
        /\ UNCHANGED OtherSessionVars

BulkUpdateSessionStatus(p) ==
    \E s \in SessionIds, new_status \in SessionStatus :
        LET r == bulk_update_session_status(session, {s}, new_status, AdminId) IN
        /\ Free(p)
        /\ session' = r.store
        /\ proc' = [proc EXCEPT ![p] =
                        Done("bulk_update_session_status", s, AdminId, NoValue, NoCode, r.ret, NoBody)]
        /\ UNCHANGED OtherSessionVars

MonitorActiveSessions(p) ==
        LET r == monitor_active_sessions(session) IN
        /\ Free(p)
        /\ session' = r.store
        /\ proc' = [proc EXCEPT ![p] =
                        Done("monitor_active_sessions", NoValue, NoValue, NoValue, NoCode, r.ret, NoBody)]
        /\ UNCHANGED OtherSessionVars

CheckInSession(p) ==
    \E s \in SessionIds, loc \in Locations :
        LET r == check_in_session(session, s, StudentId, loc, now) IN
        /\ Free(p)
        /\ session' = r.store
        /\ proc' = [proc EXCEPT ![p] =
                        Done("check_in_session", s, StudentId, loc, NoCode, r.ret, NoBody)]
        /\ UNCHANGED OtherSessionVars

CheckOutSession(p) ==
    \E s \in SessionIds, loc \in Locations :
        LET r == check_out_session(session, s, StudentId, loc, now) IN
        /\ Free(p)
        /\ session' = r.store
        /\ proc' = [proc EXCEPT ![p] =
                        Done("check_out_session", s, StudentId, loc, NoCode, r.ret, NoBody)]
        /\ UNCHANGED OtherSessionVars

----------------------------------------------------------------------------
(* Controllers/session_controller.py, Controllers/admin_controller.py.     *)
(* A request is received (it is in flight) and then its handler runs; a    *)
(* handler body holds no suspension point before it fails or returns.      *)

SessionEndpoints ==
    {"check_in_to_session", "check_out_of_session", "cancel_session_endpoint",
     "bulk_update_status"}

ReceiveSessionRequest(p) ==
    \E o \in SessionEndpoints, s \in SessionIds :
        /\ Free(p)
        /\ proc' = [proc EXCEPT ![p] =
                        Pending(o, s, StudentId,
                                IF o = "cancel_session_endpoint" THEN "reason" ELSE NoValue)]
        /\ UNCHANGED <<session, request, tx, account, now>>

(* try: success = await service.<method>(...); if success: 200 else: raise  *)
(* 400; except Exception: raise 500.  The 400 is raised inside the try.     *)
EndpointOutcome(has_method, ret) ==
    IF ~has_method THEN HTTP_500
    ELSE IF ~IsAwaitable(ret) THEN HTTP_500
    ELSE IF Truthy(ret) THEN HTTP_200
    ELSE HTTP_500

check_in_to_session(p) ==
    /\ proc[p].phase = "pending" /\ proc[p].op = "check_in_to_session"
    /\ LET has == "check_in_to_session" \in SessionServiceMethods IN
       /\ session' = session
       /\ proc' = [proc EXCEPT ![p] =
                     Done(proc[p].op, proc[p].sid, proc[p].user, proc[p].arg,
                          EndpointOutcome(has, NoValue), NoValue, NoBody)]
    /\ UNCHANGED OtherSessionVars

(* if success: background_tasks.add_task(                                   *)
(*     session_service.initiate_blockchain_logging, session_id)            *)
CheckoutBackgroundTasks(code) ==
    IF code = HTTP_200 THEN <<"initiate_blockchain_logging">> ELSE <<>>

(* What a handler with background tasks leaves: the kind of its answer     *)
(* and the tasks it has scheduled                                          *)
Answer(code, tasks) ==
    [kind |-> IF code = HTTP_200 THEN "APIResponse" ELSE "HTTPException",
     background_tasks |-> tasks]

(* As EndpointOutcome; on success the handler then reads the attribute     *)
(* session_service.initiate_blockchain_logging, inside the same try.       *)
CheckoutOutcome(has_method, ret) ==
    IF EndpointOutcome(has_method, ret) = HTTP_200
       /\ "initiate_blockchain_logging" \notin SessionServiceMethods
    THEN HTTP_500
    ELSE EndpointOutcome(has_method, ret)

check_out_of_session(p) ==
    /\ proc[p].phase = "pending" /\ proc[p].op = "check_out_of_session"
    /\ LET has == "check_out_of_session" \in SessionServiceMethods
           code == CheckoutOutcome(has, NoValue) IN
       /\ session' = session
       /\ proc' = [proc EXCEPT ![p] =
                     Done(proc[p].op, proc[p].sid, proc[p].user, proc[p].arg,
                          code, NoValue, Answer(code, CheckoutBackgroundTasks(code)))]
    /\ UNCHANGED OtherSessionVars

(* Controllers/schemas.py: SessionCancel.reason, min_length=1 *)
SessionCancelValid(reason) == reason /= ""

(* The body is validated before the handler runs; an invalid one is        *)
(* answered 422 and the handler is not entered.                            *)
cancel_session_endpoint(p) ==
    /\ proc[p].phase = "pending" /\ proc[p].op = "cancel_session_endpoint"
    /\ LET has == "cancel_session" \in SessionServiceMethods
           r == cancel_session(session, proc[p].sid, proc[p].user, proc[p].arg) IN
       IF SessionCancelValid(proc[p].arg)
       THEN /\ session' = r.store
            /\ proc' = [proc EXCEPT ![p] =
                          Done(proc[p].op, proc[p].sid, proc[p].user, proc[p].arg,
                               EndpointOutcome(has, r.ret), r.ret, NoBody)]
       ELSE /\ session' = session
            /\ proc' = [proc EXCEPT ![p] =
                          Done(proc[p].op, proc[p].sid, proc[p].user, proc[p].arg,
                               HTTP_422, NoValue, NoBody)]
    /\ UNCHANGED OtherSessionVars

bulk_update_status(p) ==
    /\ proc[p].phase = "pending" /\ proc[p].op = "bulk_update_status"
    /\ LET has == "bulk_update_status" \in AuthenticationServiceMethods IN
       /\ session' = session
       /\ proc' = [proc EXCEPT ![p] =
                     Done(proc[p].op, proc[p].sid, proc[p].user, proc[p].arg,
                          EndpointOutcome(has, NoValue), NoValue, NoBody)]
    /\ UNCHANGED OtherSessionVars

----------------------------------------------------------------------------
(* The session lifecycle *)

(* Session objects of the store: every status, with the check-in and       *)
(* checkout times a session of that status carries.                        *)
SessionObjects ==
    {Session(st, NoTime, NoTime) : st \in {REQUESTED, APPROVED, SCHEDULED, CANCELLED}}
    \cup {Session(st, 1, NoTime) : st \in {CHECKED_IN, IN_PROGRESS, CANCELLED, DISPUTED}}
    \cup {Session(st, 1, 2) : st \in {COMPLETED, DISPUTED}}

InitSession ==
    /\ session \in [SessionIds -> SessionObjects]
    /\ request = [s \in SessionIds |-> NoValue]
    /\ tx = [s \in SessionIds |-> NoTx]
    /\ account = CreditAccount(0)
    /\ now = MaxTime
    /\ proc = [p \in Procs |-> Idle]

NextSession ==
    \/ \E p \in Procs : CancelSession(p)
    \/ \E p \in Procs : EmergencyEndSession(p)
    \/ \E p \in Procs : BulkUpdateSessionStatus(p)
    \/ \E p \in Procs : MonitorActiveSessions(p)
    \/ \E p \in Procs : CheckInSession(p)
    \/ \E p \in Procs : CheckOutSession(p)
    \/ \E p \in Procs : ReceiveSessionRequest(p)
    \/ \E p \in Procs : check_in_to_session(p)
    \/ \E p \in Procs : check_out_of_session(p)
    \/ \E p \in Procs : cancel_session_endpoint(p)
    \/ \E p \in Procs : bulk_update_status(p)

SpecSession == InitSession /\ [][NextSession]_vars

----------------------------------------------------------------------------
(* Properties of the session lifecycle *)

TerminalStatus == {COMPLETED, CANCELLED}

LifecycleStep(old, new) ==
    \/ old = REQUESTED /\ new = APPROVED
    \/ old = APPROVED /\ new = SCHEDULED
    \/ old = SCHEDULED /\ new = CHECKED_IN
    \/ old = CHECKED_IN /\ new = IN_PROGRESS
    \/ old = IN_PROGRESS /\ new = COMPLETED
    \/ old \notin TerminalStatus /\ new \in {CANCELLED, DISPUTED}

(* C3: a session's status changes only by a step of the lifecycle          *)
(* REQUESTED -> APPROVED -> SCHEDULED -> CHECKED_IN -> IN_PROGRESS ->      *)
(* COMPLETED or by a move to CANCELLED or DISPUTED from a non-terminal     *)
(* state; a COMPLETED or CANCELLED session never changes its status,       *)
(* whichever operation runs.                                               *)
C3_StatusStepsOnly ==
    [][\A s \in SessionIds :
          session'[s].status /= session[s].status
              => LifecycleStep(session[s].status, session'[s].status)]_vars

(* A COMPLETED session on which an admin bulk update and an emergency end  *)
(* have both run.                                                          *)
C3_Witness ==
    \E s \in SessionIds :
        /\ session[s].status = COMPLETED
        /\ proc["p1"].phase = "done" /\ proc["p1"].op = "bulk_update_session_status"
        /\ proc["p1"].sid = s
        /\ proc["p2"].phase = "done" /\ proc["p2"].op = "emergency_end_session"
        /\ proc["p2"].sid = s

CheckInOps == {"check_in_session", "check_in_to_session"}
CheckOutOps == {"check_out_session", "check_out_of_session"}

Succeeded(r) ==
    /\ r.phase = "done"
    /\ \/ r.code = HTTP_200
       \/ r.code = NoCode /\ Truthy(r.ret)

HandleSessionRequest(p) ==
    \/ check_in_to_session(p)
    \/ check_out_of_session(p)
    \/ cancel_session_endpoint(p)
    \/ bulk_update_status(p)

AtMostOneTakes(ops) ==
    \A p, q \in Procs :
        (/\ p /= q
         /\ proc[p].op \in ops /\ proc[q].op \in ops
         /\ proc[p].sid = proc[q].sid
         /\ Succeeded(proc[p]))
            => ~Succeeded(proc[q])

----------------------------------------------------------------------------
(* Attendance: check-in, checkout and completion *)

CompleteSessionWithBlockchain(p) ==
    \E s \in SessionIds, loc \in Locations :
        LET r == complete_session_with_blockchain(Records(session, request), s, StudentId, loc) IN
        /\ Free(p)
        /\ session' = r.store.session
        /\ request' = r.store.request
        /\ proc' = [proc EXCEPT ![p] =
                        Done("complete_session_with_blockchain", s, StudentId, loc,
                             NoCode, r.ret, NoBody)]
        /\ UNCHANGED <<tx, account, now>>

InitiateBlockchainSignatureCollection(p) ==
    \E s \in SessionIds :
        LET r == initiate_blockchain_signature_collection(Records(session, request), s) IN
        /\ Free(p)
        /\ session' = r.store.session
        /\ request' = r.store.request
        /\ proc' = [proc EXCEPT ![p] =
                        Done("initiate_blockchain_signature_collection", s, NoValue, NoValue,
                             NoCode, r.ret, NoBody)]
        /\ UNCHANGED <<tx, account, now>>

ReceiveAttendRequest(p) ==
    \E o \in {"check_in_to_session", "check_out_of_session"},
       s \in SessionIds, loc \in Locations :
        /\ Free(p)
        /\ proc' = [proc EXCEPT ![p] = Pending(o, s, StudentId, loc)]
        /\ UNCHANGED <<session, request, tx, account, now>>

(* Models/session.py: Session.calculate_duration, body `pass`.  The call    *)
(* returns None and assigns nothing; `amount` holds the number returned.   *)
calculate_duration(p) ==
    \E s \in SessionIds :
        /\ Free(p)
        /\ session' = session
        /\ proc' = [proc EXCEPT ![p] =
                        DoneAmount("calculate_duration", s, NoValue, NoValue,
                                   NoCode, NoValue, NoBody, NoAmount)]
        /\ UNCHANGED OtherSessionVars

(* Models/session.py: Session.calculate_credits, body `pass` *)
calculate_credits(p) ==
    \E s \in SessionIds :
        /\ Free(p)
        /\ session' = session
        /\ proc' = [proc EXCEPT ![p] =
                        DoneAmount("calculate_credits", s, NoValue, NoValue,
                                   NoCode, NoValue, NoBody, NoAmount)]
        /\ UNCHANGED OtherSessionVars

(* SessionService.calculate_session_credits(session), body `pass` *)
calculate_session_credits(p) ==
    \E s \in SessionIds :
        /\ Free(p)
        /\ session' = session
        /\ proc' = [proc EXCEPT ![p] =
                        DoneAmount("calculate_session_credits", s, NoValue, NoValue,
                                   NoCode, NoValue, NoBody, NoAmount)]
        /\ UNCHANGED OtherSessionVars

(* GeolocationService.__init__: accuracy_threshold_meters *)
accuracy_threshold_meters == 10

(* Models/session.py: GPSLocation.validate_accuracy; FALSE where it raises *)
validate_accuracy(v) == ~(v > 1000)

(* GeolocationService.verify_location(user_location, target_location),     *)
(* body `pass`, called with a GPSLocation built from the reported          *)
(* accuracy; the constructor raises where validate_accuracy does.          *)
verify_location(p) ==
    \E loc \in Locations,
       accuracy \in {accuracy_threshold_meters, accuracy_threshold_meters + 1, 1001} :
        /\ Free(p)
        /\ session' = session
        /\ proc' = [proc EXCEPT ![p] =
                        DoneAmount("verify_location", NoValue, NoValue, loc, NoCode,
                                   IF validate_accuracy(accuracy) THEN NoValue
                                   ELSE "ValueError",
                                   NoBody, accuracy)]
        /\ UNCHANGED OtherSessionVars

(* s1 in any state of its life, s2 due to be attended or being attended *)
InitAttend ==
    /\ session \in
          {[s \in SessionIds |-> IF s = "s1" THEN o1 ELSE o2] :
              o1 \in SessionObjects,
              o2 \in {Session(SCHEDULED, NoTime, NoTime), Session(IN_PROGRESS, 1, NoTime)}}
    /\ request = [s \in SessionIds |-> NoValue]
    /\ tx = [s \in SessionIds |-> NoTx]
    /\ account = CreditAccount(0)
    /\ now = MaxTime
    /\ proc = [p \in Procs |-> Idle]

NextAttend ==
    \/ \E p \in Procs : CheckInSession(p)
    \/ \E p \in Procs : CheckOutSession(p)
    \/ \E p \in Procs : CompleteSessionWithBlockchain(p)
    \/ \E p \in Procs : InitiateBlockchainSignatureCollection(p)
    \/ \E p \in Procs : ReceiveAttendRequest(p)
    \/ \E p \in Procs : check_in_to_session(p)
    \/ \E p \in Procs : check_out_of_session(p)
    \/ \E p \in Procs : calculate_duration(p)
    \/ \E p \in Procs : calculate_credits(p)
    \/ \E p \in Procs : calculate_session_credits(p)
    \/ \E p \in Procs : verify_location(p)

SpecAttend == InitAttend /\ [][NextAttend]_vars

(* Properties of attendance *)

(* Process p finishes, in this step, an operation of `ops` on session s *)
Finishes(p, ops, s) ==
    /\ proc'[p] /= proc[p] /\ proc'[p].phase = "done"
    /\ proc'[p].op \in ops /\ proc'[p].sid = s

(* C15: a check-in on a SCHEDULED session away from the senior's address   *)
(* is rejected with LocationMismatchError and leaves the session as it     *)
(* was; one at the address records the check-in time and location and      *)
(* leaves the session IN_PROGRESS, not CHECKED_IN.                         *)
C15_CheckInByLocation ==
    [][\A p \in Procs, s \in SessionIds :
          (Finishes(p, CheckInOps, s) /\ session[s].status = SCHEDULED) =>
              IF WithinRadius(proc'[p].arg)
              THEN /\ Succeeded(proc'[p])
                   /\ session'[s].status = IN_PROGRESS
                   /\ session'[s].check_in_time /= NoTime
                   /\ session'[s].check_in_location = proc'[p].arg
              ELSE /\ proc'[p].ret = "LocationMismatchError"
                   /\ session'[s] = session[s]]_vars

CompletionOps == CheckOutOps \cup {"complete_session_with_blockchain"}

(* The background tasks a finished call has scheduled *)
Scheduled(r) == IF r.body.kind \in {"APIResponse", "HTTPException"}
                THEN r.body.background_tasks ELSE <<>>

(* C16: a checkout of an IN_PROGRESS session from outside the             *)
(* verification radius does not succeed and leaves the session as it was  *)
(* (status, checkout time and location, actual_duration_hours,             *)
(* credit_amount); no signature request is created and no background task  *)
(* is scheduled.                                                           *)
C16_CheckOutOutsideRadius ==
    [][\A p \in Procs, s \in SessionIds :
          (/\ Finishes(p, CompletionOps, s)
           /\ session[s].status = IN_PROGRESS
           /\ ~WithinRadius(proc'[p].arg)) =>
              /\ ~Succeeded(proc'[p])
              /\ session'[s] = session[s]
              /\ request' = request
              /\ Scheduled(proc'[p]) = <<>>]_vars

(* A checkout from far away has run on an IN_PROGRESS session, by the      *)
(* service and by the endpoint.                                            *)
C16_Witness ==
    \E s \in SessionIds :
        /\ session[s].status = IN_PROGRESS
        /\ proc["p1"].phase = "done" /\ proc["p1"].op = "check_out_session"
        /\ proc["p1"].sid = s /\ proc["p1"].arg = "far_away"
        /\ proc["p2"].phase = "done" /\ proc["p2"].op = "check_out_of_session"
        /\ proc["p2"].sid = s /\ proc["p2"].arg = "far_away"

(* C17: a checkout request for an IN_PROGRESS session made at the senior's *)
(* address succeeds, the session is COMPLETED and the background step is   *)
(* scheduled exactly once, in the handler's own step and without touching  *)
(* signatures or ledger; a checkout that fails schedules nothing.          *)
C17_BackgroundStepOnSuccess ==
    [][\A p \in Procs, s \in SessionIds :
          Finishes(p, {"check_out_of_session"}, s) =>
              /\ (session[s].status = IN_PROGRESS /\ WithinRadius(proc'[p].arg)) =>
                    /\ Succeeded(proc'[p])
                    /\ session'[s].status = COMPLETED
                    /\ Len(Scheduled(proc'[p])) = 1
              /\ ~Succeeded(proc'[p]) => Scheduled(proc'[p]) = <<>>
              /\ request' = request /\ tx' = tx]_vars

(* Models/session.py: Session.hourly_rate, default *)
hourly_rate == 15

(* Hours between check-in and checkout *)
HoursAttended(s) == session[s].check_out_time - session[s].check_in_time

CalculateOps == {"calculate_duration", "calculate_credits", "calculate_session_credits"}

(* C21: when the duration or the credits of a COMPLETED session have been  *)
(* computed, its checkout is after its check-in, actual_duration_hours is  *)
(* the hours between the two, never unset, and credit_amount is that       *)
(* duration times the hourly rate (no bonus); the number returned is the   *)
(* duration, respectively the credit.                                      *)
C21_CompletedDurationAndCredit ==
    [][\A p \in Procs, s \in SessionIds :
          (Finishes(p, CalculateOps, s) /\ session[s].status = COMPLETED) =>
              /\ session'[s].check_out_time > session'[s].check_in_time
              /\ session'[s].actual_duration_hours = HoursAttended(s)
              /\ session'[s].credit_amount = HoursAttended(s) * hourly_rate
              /\ proc'[p].ret /= NoValue
              /\ proc'[p].amount = IF proc'[p].op = "calculate_duration"
                                   THEN HoursAttended(s)
                                   ELSE HoursAttended(s) * hourly_rate]_vars

(* C24: location validation answers with a result, valid when the         *)
(* reported accuracy is within the ceiling and the distance within the     *)
(* radius, invalid otherwise; it raises nothing.                           *)
C24_LocationValidationResult ==
    [][\A p \in Procs :
          (/\ proc'[p] /= proc[p] /\ proc'[p].phase = "done"
           /\ proc'[p].op = "verify_location") =>
              proc'[p].ret =
                  IF /\ proc'[p].amount <= accuracy_threshold_meters
                     /\ WithinRadius(proc'[p].arg)
                  THEN "valid" ELSE "invalid"]_vars

----------------------------------------------------------------------------
(* Models/blockchain.py: SignatureStatus, SignatureRequest *)

SIG_PENDING == "pending"
SIG_COLLECTED == "collected"
SIG_EXPIRED == "expired"
SignatureStatus == {SIG_PENDING, SIG_COLLECTED, SIG_EXPIRED}

SignatureRequest(student_sig, senior_sig, expires_at) ==
    [student_signature |-> student_sig,
     senior_signature |-> senior_sig,
     student_signed_at |-> NoTime,
     senior_signed_at |-> NoTime,
     status |-> SIG_PENDING,
     expires_at |-> expires_at]

Signatures == {"sigA", "sigB"}

(* current_user.get("role") *)
RoleOf(u) ==
    IF u = StudentId THEN "student" ELSE IF u = SeniorId THEN "senior" ELSE "admin"

(* Services/blockchain_service.py: SignatureService.  Bodies are `pass`.   *)

submit_signature(reqs, rid, user_id, signature) ==
    [store |-> reqs, ret |-> NoValue]

expire_pending_signatures(reqs, t) ==
    [store |-> reqs, ret |-> NoValue]

create_signature_request(reqs, sid, student_id, senior_id) ==
    [store |-> reqs, ret |-> NoValue]

(* Controllers/blockchain_controller.py: get_blockchain_services is `pass`; *)
(* a deployment that overrides the dependency hands the handler a triple.   *)
ServicesInputs == {"none", "injected"}

SubmitTiming(sid) == IF now > request[sid].expires_at THEN "late" ELSE "in_time"

OtherSignVars == <<session, tx, account, now>>

SubmitSignature(p) ==
    \E s \in SessionIds, u \in Users, sig \in Signatures :
        LET r == submit_signature(request, s, u, sig) IN
        /\ Free(p)
        /\ request' = r.store
        /\ proc' = [proc EXCEPT ![p] =
                        Done("submit_signature", s, u, SubmitTiming(s), NoCode, r.ret, NoBody)]
        /\ UNCHANGED OtherSignVars

ExpirePendingSignatures(p) ==
    LET r == expire_pending_signatures(request, now) IN
    /\ Free(p)
    /\ request' = r.store
    /\ proc' = [proc EXCEPT ![p] =
                    DoneAt("expire_pending_signatures", NoValue, NoValue, NoValue,
                           NoCode, r.ret, NoBody, now)]
    /\ UNCHANGED OtherSignVars

CreateSignatureRequest(p) ==
    \E s \in SessionIds :
        LET r == create_signature_request(request, s, StudentId, SeniorId) IN
        /\ Free(p)
        /\ request' = r.store
        /\ proc' = [proc EXCEPT ![p] =
                        Done("create_signature_request", s, NoValue, NoValue,
                             NoCode, r.ret, NoBody)]
        /\ UNCHANGED OtherSignVars

(* SignatureService.check_signature_completeness(request_id), body `pass` *)
check_signature_completeness(p) ==
    \E s \in SessionIds :
        /\ Free(p)
        /\ request' = request
        /\ proc' = [proc EXCEPT ![p] =
                        DoneAt("check_signature_completeness", s, NoValue, NoValue,
                               NoCode, NoValue, NoBody, now)]
        /\ UNCHANGED OtherSignVars

ReceiveSubmitRequest(p) ==
    \E s \in SessionIds, u \in Users, sv \in ServicesInputs :
        /\ Free(p)
        /\ proc' = [proc EXCEPT ![p] = Pending("submit_digital_signature", s, u, sv)]
        /\ UNCHANGED <<session, request, tx, account, now>>

(* The SignatureRequest the handler builds for its response *)
SubmitResponse(u, signature, t) ==
    [kind |-> "SignatureRequest",
     student_signature |-> IF RoleOf(u) = "student" THEN signature ELSE NoValue,
     senior_signature |-> IF RoleOf(u) = "senior" THEN signature ELSE NoValue,
     status |-> SIG_PENDING,
     expires_at |-> t]

submit_digital_signature(p) ==
    /\ proc[p].phase = "pending" /\ proc[p].op = "submit_digital_signature"
    /\ \E sig \in Signatures :
        proc' = [proc EXCEPT ![p] =
            IF proc[p].arg = "none"
            THEN Done(proc[p].op, proc[p].sid, proc[p].user, SubmitTiming(proc[p].sid),
                      HTTP_500, NoValue, NoBody)
            ELSE Done(proc[p].op, proc[p].sid, proc[p].user, SubmitTiming(proc[p].sid),
                      HTTP_200, NoValue, SubmitResponse(proc[p].user, sig, now))]
    /\ UNCHANGED <<session, request, tx, account, now>>

Tick ==
    /\ now < MaxTime
    /\ now' = now + 1
    /\ UNCHANGED <<session, request, tx, account, proc>>

(* Signature collection starts when a session has completed.  The requests  *)
(* of the store: s1's with any signatures and deadline, s2's fresh.         *)
InitSign ==
    /\ session = [s \in SessionIds |-> Session(COMPLETED, 1, 2)]
    /\ request \in
          {[s \in SessionIds |->
               IF s = "s1" THEN SignatureRequest(a, b, e)
               ELSE SignatureRequest(NoValue, NoValue, MaxTime)] :
             a \in {NoValue, "sigA"}, b \in {NoValue, "sigA"}, e \in 1..(MaxTime - 1)}
    /\ tx = [s \in SessionIds |-> NoTx]
    /\ account = CreditAccount(0)
    /\ now = 1
    /\ proc = [p \in Procs |-> Idle]

NextSign ==
    \/ \E p \in Procs : SubmitSignature(p)
    \/ \E p \in Procs : ExpirePendingSignatures(p)
    \/ \E p \in Procs : CreateSignatureRequest(p)
    \/ \E p \in Procs : ReceiveSubmitRequest(p)
    \/ \E p \in Procs : submit_digital_signature(p)
    \/ \E p \in Procs : check_signature_completeness(p)
    \/ Tick

SpecSign == InitSign /\ [][NextSign]_vars

----------------------------------------------------------------------------
(* Properties of signature collection *)

SubmitOps == {"submit_signature", "submit_digital_signature"}

(* A submission by user u for the request of session s that the program   *)
(* took without raising, made in_time or late.                             *)
Submitted(p, s, u, timing) ==
    /\ proc[p].phase = "done" /\ proc[p].op \in SubmitOps
    /\ proc[p].sid = s /\ proc[p].user = u /\ proc[p].arg = timing
    /\ proc[p].code /= HTTP_500

Rejected(p, error) ==
    /\ proc[p].ret = error
    /\ proc[p].code /= HTTP_200

(* C5: a request is PENDING until it becomes COLLECTED or EXPIRED; once    *)
(* the student and the senior have both submitted before the deadline it  *)
(* is COLLECTED; a submission after the deadline is rejected with          *)
(* AlreadyExpiredError, stores nothing and leaves the request EXPIRED; a   *)
(* request never moves between COLLECTED and EXPIRED.                      *)
C5_SignatureRequestLifecycle ==
    /\ [](\A s \in SessionIds :
            /\ (\E p, q \in Procs :
                    Submitted(p, s, StudentId, "in_time") /\ Submitted(q, s, SeniorId, "in_time"))
                  => request[s].status = SIG_COLLECTED
            /\ \A p \in Procs, u \in {StudentId, SeniorId} :
                    (/\ proc[p].phase = "done" /\ proc[p].op \in SubmitOps
                     /\ proc[p].sid = s /\ proc[p].user = u /\ proc[p].arg = "late")
                        => Rejected(p, "AlreadyExpiredError")
                           /\ request[s].status = SIG_EXPIRED)
    /\ [][\A s \in SessionIds :
            request'[s].status /= request[s].status
                => request[s].status = SIG_PENDING
                   /\ request'[s].status \in {SIG_COLLECTED, SIG_EXPIRED}]_vars

(* C6: a submission touches only the submitter's own slot, and a           *)
(* submission by a user who is neither the student nor the senior of the   *)
(* request fails with NotAParticipantError and changes nothing.            *)
C6_SubmitFrame ==
    /\ [](\A p \in Procs :
            (/\ proc[p].phase = "done" /\ proc[p].op \in SubmitOps
             /\ proc[p].user \notin {StudentId, SeniorId})
                => Rejected(p, "NotAParticipantError"))
    /\ [][\A p \in Procs :
            (proc'[p] /= proc[p] /\ proc'[p].phase = "done" /\ proc'[p].op \in SubmitOps)
                => LET s == proc'[p].sid
                       u == proc'[p].user IN
                   /\ u /= StudentId
                        => request'[s].student_signature = request[s].student_signature
                   /\ u /= SeniorId
                        => request'[s].senior_signature = request[s].senior_signature
                   /\ u \notin {StudentId, SeniorId}
                        => request'[s].status = request[s].status
                   /\ \A o \in SessionIds \ {s} : request'[o] = request[o]]_vars

OneSigned(r) ==
    (r.student_signature = NoValue) /= (r.senior_signature = NoValue)

(* C7: once the expiry sweep has run after the deadline of a request that  *)
(* only one party signed, the request is EXPIRED, its session is still     *)
(* COMPLETED and unverified, it has no ledger transaction and its credit   *)
(* is not paid.                                                            *)
C7_ExpirySweep ==
    \A s \in SessionIds, p \in Procs :
        (/\ proc[p].phase = "done" /\ proc[p].op = "expire_pending_signatures"
         /\ proc[p].at > request[s].expires_at
         /\ OneSigned(request[s]))
            => /\ request[s].status = SIG_EXPIRED
               /\ session[s].status = COMPLETED
               /\ ~session[s].blockchain_verified
               /\ ~session[s].credit_disbursed
               /\ tx[s] = NoTx

(* C22: is_complete answers true exactly for a request with both          *)
(* signature slots filled that is not expired: false with one signature,   *)
(* false once expired.                                                     *)
C22_CompleteIffBothSignedUnexpired ==
    [][\A p \in Procs, s \in SessionIds :
          Finishes(p, {"check_signature_completeness"}, s) =>
              (Truthy(proc'[p].ret) <=>
                  /\ request[s].student_signature /= NoValue
                  /\ request[s].senior_signature /= NoValue
                  /\ request[s].status /= SIG_EXPIRED
                  /\ proc'[p].at <= request[s].expires_at)]_vars

(* A PENDING request whose deadline has passed *)
Overdue(s) == request[s].status = SIG_PENDING /\ now > request[s].expires_at

(* C23: a sweep makes every PENDING request past its deadline EXPIRED,     *)
(* returns the list of their ids and leaves every other request as it      *)
(* was, so that a second sweep at the same time finds nothing to do.       *)
C23_SweepExpiresExactlyOverdue ==
    [][\A p \in Procs :
          (/\ proc'[p] /= proc[p] /\ proc'[p].phase = "done"
           /\ proc'[p].op = "expire_pending_signatures") =>
              /\ proc'[p].ret /= NoValue
              /\ \A s \in SessionIds :
                    IF Overdue(s)
                    THEN request'[s].status = SIG_EXPIRED
                    ELSE request'[s] = request[s]]_vars

----------------------------------------------------------------------------
(* Ledger settlement.  Services/blockchain_service.py: SolanaService,       *)
(* BlockchainVerificationService; Services/session_service.py:             *)
(* SessionService.  Bodies are `pass`.  `ledger` is the store of           *)
(* transactions by session id, `cond` what the network does to a           *)
(* submission.                                                             *)

LedgerConditions == {"ok", "network_error", "insufficient_balance", "timeout"}

write_session_to_blockchain(ledger, sid, cond) ==
    [store |-> ledger, ret |-> NoValue]

finalize_session_on_blockchain(ledger, sid, signature_request, cond) ==
    [store |-> ledger, ret |-> NoValue]

handle_blockchain_failure(ledger, sid, error_message) ==
    [store |-> ledger, ret |-> NoValue]

retry_failed_blockchain_operations(ledger, cond) ==
    [store |-> ledger, ret |-> NoValue]

check_duplicate_sessions(ledger, sid) ==
    [store |-> ledger, ret |-> NoValue]

OtherSettleVars == <<session, request, account, now>>

WriteSessionToBlockchain(p) ==
    \E s \in SessionIds, cond \in LedgerConditions :
        LET r == write_session_to_blockchain(tx, s, cond) IN
        /\ Free(p)
        /\ tx' = r.store
        /\ proc' = [proc EXCEPT ![p] =
                        DoneAt("write_session_to_blockchain", s, NoValue, cond,
                               NoCode, r.ret, NoBody, now)]
        /\ UNCHANGED OtherSettleVars

FinalizeSessionOnBlockchain(p) ==
    \E s \in SessionIds, cond \in LedgerConditions :
        LET r == finalize_session_on_blockchain(tx, s, request[s], cond) IN
        /\ Free(p)
        /\ tx' = r.store
        /\ proc' = [proc EXCEPT ![p] =
                        DoneAt("finalize_session_on_blockchain", s, NoValue, cond,
                               NoCode, r.ret, NoBody, now)]
        /\ UNCHANGED OtherSettleVars

HandleBlockchainFailure(p) ==
    \E s \in SessionIds :
        LET r == handle_blockchain_failure(tx, s, "error") IN
        /\ Free(p)
        /\ tx' = r.store
        /\ proc' = [proc EXCEPT ![p] =
                        Done("handle_blockchain_failure", s, NoValue, NoValue,
                             NoCode, r.ret, NoBody)]
        /\ UNCHANGED OtherSettleVars

RetryFailedBlockchainOperations(p) ==
    \E cond \in LedgerConditions :
        LET r == retry_failed_blockchain_operations(tx, cond) IN
        /\ Free(p)
        /\ tx' = r.store
        /\ proc' = [proc EXCEPT ![p] =
                        Done("retry_failed_blockchain_operations", NoValue, NoValue, cond,
                             NoCode, r.ret, NoBody)]
        /\ UNCHANGED OtherSettleVars

CheckDuplicateSessions(p) ==
    \E s \in SessionIds :
        LET r == check_duplicate_sessions(tx, s) IN
        /\ Free(p)
        /\ tx' = r.store
        /\ proc' = [proc EXCEPT ![p] =
                        Done("check_duplicate_sessions", s, NoValue, NoValue,
                             NoCode, r.ret, NoBody)]
        /\ UNCHANGED OtherSettleVars

(* Controllers/blockchain_controller.py: POST /blockchain/log-session *)

ReceiveLogRequest(p) ==
    \E s \in SessionIds, sv \in ServicesInputs :
        /\ Free(p)
        /\ proc' = [proc EXCEPT ![p] = Pending("log_session_to_blockchain", s, StudentId, sv)]
        /\ UNCHANGED <<session, request, tx, account, now>>

(* The BlockchainTransaction the handler builds for its response; the      *)
(* signatures of its SessionLog are those of the LogSessionRequest.        *)
LogResponse(sid, student_sig, senior_sig, t) ==
    [kind |-> "BlockchainTransaction",
     transaction_id |-> "mock_transaction_id",
     status |-> TX_PENDING,
     timestamp |-> t,
     session_id |-> sid,
     student_signature |-> student_sig,
     senior_signature |-> senior_sig]

(* `services` is unpacked first; rate_limit_blockchain_ops is `pass`; the  *)
(* verification and the write are comments; the response is built.         *)
log_session_to_blockchain(p) ==
    /\ proc[p].phase = "pending" /\ proc[p].op = "log_session_to_blockchain"
    /\ \E student_sig \in Signatures, senior_sig \in Signatures :
        proc' = [proc EXCEPT ![p] =
            IF proc[p].arg = "none"
            THEN DoneAt(proc[p].op, proc[p].sid, proc[p].user, proc[p].arg,
                        HTTP_500, NoValue, NoBody, now)
            ELSE DoneAt(proc[p].op, proc[p].sid, proc[p].user, proc[p].arg,
                        HTTP_201, NoValue,
                        LogResponse(proc[p].sid, student_sig, senior_sig, now), now)]
    /\ UNCHANGED <<session, request, tx, account, now>>

(* Sessions that have ended, with checkout after or before check-in; s1's   *)
(* signature request in any state of signing, s2's signed by both.         *)
InitSettle ==
    /\ session \in
          {[s \in SessionIds |->
               IF s = "s1" THEN Session(COMPLETED, cin, cout)
               ELSE Session(COMPLETED, 1, 2)] :
             cin \in {1, 2}, cout \in {2}}
    /\ request \in
          {[s \in SessionIds |->
               IF s = "s1" THEN SignatureRequest(a, b, e)
               ELSE SignatureRequest("sigA", "sigB", MaxTime)] :
             a \in {NoValue, "sigA"}, b \in {NoValue, "sigB"}, e \in {1, MaxTime}}
    /\ tx = [s \in SessionIds |-> NoTx]
    /\ account = CreditAccount(0)
    /\ now = 1
    /\ proc = [p \in Procs |-> Idle]

NextSettle ==
    \/ \E p \in Procs : WriteSessionToBlockchain(p)
    \/ \E p \in Procs : FinalizeSessionOnBlockchain(p)
    \/ \E p \in Procs : HandleBlockchainFailure(p)
    \/ \E p \in Procs : RetryFailedBlockchainOperations(p)
    \/ \E p \in Procs : CheckDuplicateSessions(p)
    \/ \E p \in Procs : ReceiveLogRequest(p)
    \/ \E p \in Procs : log_session_to_blockchain(p)
    \/ Tick

SpecSettle == InitSettle /\ [][NextSettle]_vars

----------------------------------------------------------------------------
(* Properties of ledger settlement *)

CommitOps ==
    {"write_session_to_blockchain", "finalize_session_on_blockchain",
     "log_session_to_blockchain"}

(* The call handed its caller a transaction for the session *)
Committed(r) ==
    /\ r.phase = "done" /\ r.op \in CommitOps
    /\ \/ r.code = HTTP_201
       \/ r.code = NoCode /\ Truthy(r.ret)

BothSigned(r) == r.student_signature /= NoValue /\ r.senior_signature /= NoValue

MayCommit(s, t) ==
    /\ BothSigned(request[s])
    /\ t <= request[s].expires_at
    /\ session[s].check_out_time > session[s].check_in_time

C10_CommitNeverDropped ==
    \A p \in Procs :
        LET s == proc[p].sid IN
        (/\ proc[p].phase = "done"
         /\ proc[p].op \in {"write_session_to_blockchain", "finalize_session_on_blockchain"}
         /\ session[s].status = COMPLETED /\ MayCommit(s, proc[p].at))
            => /\ tx[s].retry_count <= max_retries
               /\ IF proc[p].arg = "ok"
                  THEN Committed(proc[p]) /\ tx[s].status \in {TX_PENDING, TX_CONFIRMED}
                  ELSE /\ ~Committed(proc[p])
                       /\ proc[p].ret = "BlockchainError"
                       /\ tx[s].status = TX_FAILED

----------------------------------------------------------------------------
(* Credit award.  Services/credit_service.py: CreditService;               *)
(* Models/credit.py: CreditAccount.  Bodies are `pass`.  `books` is the    *)
(* pair of the student's account and the sessions.                         *)

Amounts == 1..MaxAmount

Books(acct, sess) == [account |-> acct, session |-> sess]

award_credits_unconditional(books, sid, student_id, amount) ==
    [store |-> Books([books.account EXCEPT
                         !.total_credits_earned = @ + amount,
                         !.available_balance = @ + amount],
                     [books.session EXCEPT ![sid].credit_disbursed = TRUE]),
     ret |-> "CreditTransaction"]

award_credits(books, sid, student_id, amount) ==
    [store |-> books, ret |-> NoValue]

add_earned_credits(acct, amount, sid) ==
    [store |-> acct, ret |-> NoValue]

deduct_disbursed_credits(acct, amount, transaction_id) ==
    [store |-> acct, ret |-> NoValue]

AwardCredits(p) ==
    \E s \in SessionIds, amount \in Amounts :
        LET r == award_credits(Books(account, session), s, StudentId, amount) IN
        /\ Free(p)
        /\ account' = r.store.account
        /\ session' = r.store.session
        /\ proc' = [proc EXCEPT ![p] =
                        DoneAmount("award_credits", s, StudentId, NoValue,
                                   NoCode, r.ret, NoBody, amount)]
        /\ UNCHANGED <<request, tx, now>>

AddEarnedCredits(p) ==
    \E s \in SessionIds, amount \in Amounts :
        LET r == add_earned_credits(account, amount, s) IN
        /\ Free(p)
        /\ account' = r.store
        /\ proc' = [proc EXCEPT ![p] =
                        DoneAmount("add_earned_credits", s, StudentId, NoValue,
                                   NoCode, r.ret, NoBody, amount)]
        /\ UNCHANGED <<session, request, tx, now>>

DeductDisbursedCredits(p) ==
    \E amount \in Amounts :
        LET r == deduct_disbursed_credits(account, amount, "transaction") IN
        /\ Free(p)
        /\ account' = r.store
        /\ proc' = [proc EXCEPT ![p] =
                        DoneAmount("deduct_disbursed_credits", NoValue, StudentId, NoValue,
                                   NoCode, r.ret, NoBody, amount)]
        /\ UNCHANGED <<session, request, tx, now>>

(* Sessions in progress or completed, each with no transaction or one in   *)
(* any status, and the student's account with any balance earned so far.   *)
InitCredit ==
    /\ session \in [SessionIds -> {Session(IN_PROGRESS, 1, NoTime), Session(COMPLETED, 1, 2)}]
    /\ request = [s \in SessionIds |-> SignatureRequest("sigA", "sigB", MaxTime)]
    /\ tx \in [SessionIds ->
                  {NoTx} \cup {BlockchainTransaction(st) : st \in TransactionStatus}]
    /\ account \in {CreditAccount(e) : e \in 0..MaxAmount}
    /\ now = MaxTime
    /\ proc = [p \in Procs |-> Idle]

NextCredit ==
    \/ \E p \in Procs : AwardCredits(p)
    \/ \E p \in Procs : AddEarnedCredits(p)
    \/ \E p \in Procs : DeductDisbursedCredits(p)

SpecCredit == InitCredit /\ [][NextCredit]_vars

----------------------------------------------------------------------------
(* Properties of credit award *)

CreditOps == {"award_credits", "add_earned_credits"}

Payable(s) == session[s].status = COMPLETED /\ tx[s].status = TX_CONFIRMED

(* C8: the balance grows, and a session's credit_disbursed becomes true,   *)
(* only in a step of a credit operation for a session that is COMPLETED    *)
(* and whose transaction is CONFIRMED; an operation for a session whose    *)
(* transaction is PENDING, FAILED or absent leaves both as they were.      *)
C8_CreditOnlyAfterConfirmed ==
    [][/\ account'.available_balance > account.available_balance
            => \E p \in Procs :
                  /\ proc'[p] /= proc[p] /\ proc'[p].op \in CreditOps
                  /\ Payable(proc'[p].sid)
       /\ \A s \in SessionIds :
            (session'[s].credit_disbursed /\ ~session[s].credit_disbursed)
                => /\ Payable(s)
                   /\ \E p \in Procs :
                         /\ proc'[p] /= proc[p] /\ proc'[p].op \in CreditOps
                         /\ proc'[p].sid = s
      ]_vars

(* An award has run for a COMPLETED session whose transaction is PENDING,  *)
(* and one for a session that is COMPLETED and CONFIRMED.                  *)
C8_Witness ==
    /\ proc["p1"].phase = "done" /\ proc["p1"].op = "award_credits"
    /\ session[proc["p1"].sid].status = COMPLETED
    /\ tx[proc["p1"].sid].status = TX_PENDING
    /\ ~session[proc["p1"].sid].credit_disbursed
    /\ proc["p2"].phase = "done" /\ proc["p2"].op = "award_credits"
    /\ Payable(proc["p2"].sid)

(* C9: every award to the student's account adds its amount to the         *)
(* balance the account had, whatever other awards run around it: after     *)
(* the awards the balance is the initial balance plus their sum.           *)
C9_NoLostUpdate ==
    [][\A p \in Procs :
          (/\ proc'[p] /= proc[p] /\ proc'[p].phase = "done"
           /\ proc'[p].op = "award_credits" /\ Payable(proc'[p].sid))
              => account'.available_balance = account.available_balance + proc'[p].amount
      ]_vars

----------------------------------------------------------------------------
(* Ledger verification.  Services/blockchain_service.py: SolanaService,     *)
(* BlockchainVerificationService.  Bodies are `pass`.  `cond` is what the   *)
(* ledger does while the call runs.                                        *)

PollConditions == {"accepted", "rejected", "unreachable"}

(* SolanaService.verify_transaction: the poll of a transaction's status *)
verify_transaction(ledger, sid, cond) ==
    [store |-> ledger, ret |-> NoValue]

(* SolanaService.get_transaction_by_session *)
get_transaction_by_session(ledger, sid, cond) ==
    [store |-> ledger, ret |-> NoValue]

OtherVerifyVars == <<session, request, account, now>>

VerifyTransaction(p) ==
    \E s \in SessionIds, cond \in PollConditions :
        LET r == verify_transaction(tx, s, cond) IN
        /\ Free(p)
        /\ tx' = r.store
        /\ proc' = [proc EXCEPT ![p] =
                        DoneCond("verify_transaction", s, NoValue, NoValue,
                                 NoCode, r.ret, NoBody, cond)]
        /\ UNCHANGED OtherVerifyVars

GetTransactionBySession(p) ==
    \E s \in SessionIds, cond \in PollConditions :
        LET r == get_transaction_by_session(tx, s, cond) IN
        /\ Free(p)
        /\ tx' = r.store
        /\ proc' = [proc EXCEPT ![p] =
                        DoneCond("get_transaction_by_session", s, NoValue, NoValue,
                                 NoCode, r.ret, NoBody, cond)]
        /\ UNCHANGED OtherVerifyVars

(* BlockchainVerificationService *)
verify_session_integrity(ledger, sid, cond) ==
    [store |-> ledger, ret |-> NoValue]

validate_credit_eligibility(ledger, sid, cond) ==
    [store |-> ledger, ret |-> NoValue]

get_public_transaction_proof(ledger, transaction_id) ==
    [store |-> ledger, ret |-> NoValue]

batch_verify_sessions_service(ledger, session_ids, outage) ==
    [store |-> ledger, ret |-> NoValue]

VerifySessionIntegrity(p) ==
    \E s \in SessionIds, cond \in PollConditions :
        LET r == verify_session_integrity(tx, s, cond) IN
        /\ Free(p)
        /\ tx' = r.store
        /\ proc' = [proc EXCEPT ![p] =
                        DoneCond("verify_session_integrity", s, NoValue, NoValue,
                                 NoCode, r.ret, NoBody, cond)]
        /\ UNCHANGED OtherVerifyVars

ValidateCreditEligibility(p) ==
    \E s \in SessionIds :
        LET r == validate_credit_eligibility(tx, s, "accepted") IN
        /\ Free(p)
        /\ tx' = r.store
        /\ proc' = [proc EXCEPT ![p] =
                        DoneCond("validate_credit_eligibility", s, NoValue, NoValue,
                                 NoCode, r.ret, NoBody, "accepted")]
        /\ UNCHANGED OtherVerifyVars

(* Models/blockchain.py: VerificationResult, as the verify handler fills    *)
(* it: every field is a literal but the session id.                         *)
VerificationResult(sid, details) ==
    [kind |-> "VerificationResult",
     session_id |-> sid,
     transaction_id |-> "mock_transaction_id",
     is_verified |-> TRUE,
     confirmations |-> 10,
     integrity_check |-> TRUE,
     signatures_valid |-> TRUE,
     credit_eligible |-> TRUE,
     verification_details |-> details,
     error_details |-> NoValue]

(* Controllers/blockchain_controller.py: GET /blockchain/verify/{id} *)

ReceiveVerifyRequest(p) ==
    \E s \in SessionIds, sv \in ServicesInputs :
        /\ Free(p)
        /\ proc' = [proc EXCEPT ![p] = Pending("verify_session_on_blockchain", s, StudentId, sv)]
        /\ UNCHANGED <<session, request, tx, account, now>>

(* `services` is unpacked; the call of verify_session_integrity is a       *)
(* comment; the result is built from literals; with include_proof the      *)
(* proof (None) is put into verification_details.                          *)
verify_session_on_blockchain(p) ==
    /\ proc[p].phase = "pending" /\ proc[p].op = "verify_session_on_blockchain"
    /\ \E include_proof \in BOOLEAN, cond \in PollConditions :
        LET proof == get_public_transaction_proof(tx, "mock_transaction_id")
            details == IF include_proof THEN "mock, public_proof" ELSE "mock" IN
        /\ tx' = IF proc[p].arg /= "none" /\ include_proof THEN proof.store ELSE tx
        /\ proc' = [proc EXCEPT ![p] =
            IF proc[p].arg = "none"
            THEN Done(proc[p].op, proc[p].sid, proc[p].user, proc[p].arg,
                      HTTP_500, NoValue, NoBody)
            ELSE DoneCond(proc[p].op, proc[p].sid, proc[p].user, proc[p].arg,
                          HTTP_200, NoValue, VerificationResult(proc[p].sid, details), cond)]
    /\ UNCHANGED OtherVerifyVars

(* Controllers/blockchain_controller.py: POST /blockchain/verify/batch *)

RECURSIVE SeqsUpTo(_, _)
SeqsUpTo(S, n) ==
    IF n = 0 THEN {<<>>}
    ELSE LET shorter == SeqsUpTo(S, n - 1) IN
         shorter \cup {Append(q, x) : q \in shorter, x \in S}

(* BatchVerificationRequest.session_ids *)
Batches == SeqsUpTo(SessionIds, MaxBatch)

(* The id whose verification meets a ledger outage, if any *)
Outages == SessionIds \cup {NoValue}

(* The VerificationResult the batch handler builds for one id *)
BatchVerificationResult(sid) ==
    [kind |-> "VerificationResult",
     session_id |-> sid,
     transaction_id |-> NoValue,
     is_verified |-> TRUE,
     confirmations |-> 0,
     integrity_check |-> TRUE,
     signatures_valid |-> TRUE,
     credit_eligible |-> TRUE,
     verification_details |-> "",
     error_details |-> NoValue]

(* A batch call: its input, whether it returned a list, and the list *)
BatchOutcome(ids, outage, returned, results) ==
    [kind |-> "batch", session_ids |-> ids, outage |-> outage,
     returned |-> returned, results |-> results]

BatchVerifySessions(p) ==
    \E ids \in Batches, outage \in Outages :
        LET r == batch_verify_sessions_service(tx, ids, outage) IN
        /\ Free(p)
        /\ tx' = r.store
        /\ proc' = [proc EXCEPT ![p] =
                        Done("batch_verify_sessions_service", NoValue, NoValue, NoValue,
                             NoCode, r.ret, BatchOutcome(ids, outage, FALSE, <<>>))]
        /\ UNCHANGED OtherVerifyVars

ReceiveBatchRequest(p) ==
    \E sv \in ServicesInputs :
        /\ Free(p)
        /\ proc' = [proc EXCEPT ![p] = Pending("batch_verify_sessions", NoValue, AdminId, sv)]
        /\ UNCHANGED <<session, request, tx, account, now>>

(* `services` is unpacked; the call of the service is a comment; one       *)
(* result is built per id of the request, in the request's order.          *)
batch_verify_sessions(p) ==
    /\ proc[p].phase = "pending" /\ proc[p].op = "batch_verify_sessions"
    /\ \E ids \in Batches, outage \in Outages :
        LET results == [i \in 1..Len(ids) |-> BatchVerificationResult(ids[i])] IN
        proc' = [proc EXCEPT ![p] =
            IF proc[p].arg = "none"
            THEN Done(proc[p].op, NoValue, proc[p].user, proc[p].arg,
                      HTTP_500, NoValue, NoBody)
            ELSE Done(proc[p].op, NoValue, proc[p].user, proc[p].arg,
                      HTTP_200, NoValue, BatchOutcome(ids, outage, TRUE, results))]
    /\ UNCHANGED <<session, request, tx, account, now>>

(* What the session was signed with and hashed to *)
SignedSession(st) ==
    [Session(st, 1, IF st = COMPLETED THEN 2 ELSE NoTime) EXCEPT
        !.student_signature = "sigA", !.senior_signature = "sigB", !.session_hash = "hash"]

(* The transactions a ledger can hold for a session: PENDING with any      *)
(* number of confirmations, CONFIRMED with enough of them, or FAILED; the  *)
(* logged hash or a logged signature may differ from the session's.        *)
LedgerTransactions ==
    {[BlockchainTransaction(st) EXCEPT !.confirmations = c, !.session_log = log] :
        st \in {TX_PENDING, TX_CONFIRMED, TX_FAILED},
        c \in 0..MaxConfirmations,
        log \in {SessionLog("hash", "sigA", "sigB"),
                 SessionLog("other_hash", "sigA", "sigB"),
                 SessionLog("hash", "forged", "sigB")}}

Consistent(t) ==
    /\ t.status = TX_CONFIRMED => t.confirmations >= confirmation_blocks
    /\ t.status = TX_FAILED => t.confirmations = 0

InitVerify ==
    /\ session \in
          {[s \in SessionIds |-> IF s = "s1" THEN SignedSession(st) ELSE SignedSession(COMPLETED)] :
              st \in {IN_PROGRESS, COMPLETED}}
    /\ request = [s \in SessionIds |-> SignatureRequest("sigA", "sigB", MaxTime)]
    /\ tx \in
          {[s \in SessionIds |-> IF s = "s1" THEN t ELSE NoTx] :
              t \in {NoTx} \cup {lt \in LedgerTransactions : Consistent(lt)}}
    /\ account = CreditAccount(0)
    /\ now = MaxTime
    /\ proc = [p \in Procs |-> Idle]

NextVerify ==
    \/ \E p \in Procs : VerifyTransaction(p)
    \/ \E p \in Procs : GetTransactionBySession(p)
    \/ \E p \in Procs : VerifySessionIntegrity(p)
    \/ \E p \in Procs : ValidateCreditEligibility(p)
    \/ \E p \in Procs : ReceiveVerifyRequest(p)
    \/ \E p \in Procs : verify_session_on_blockchain(p)

SpecVerify == InitVerify /\ [][NextVerify]_vars

(* Batches over sessions that have a confirmed transaction or none *)
InitBatch ==
    /\ session = [s \in SessionIds |-> SignedSession(COMPLETED)]
    /\ request = [s \in SessionIds |-> SignatureRequest("sigA", "sigB", MaxTime)]
    /\ tx \in [SessionIds ->
                  {NoTx, [BlockchainTransaction(TX_CONFIRMED) EXCEPT
                             !.confirmations = confirmation_blocks]}]
    /\ account = CreditAccount(0)
    /\ now = MaxTime
    /\ proc = [p \in Procs |-> Idle]

NextBatch ==
    \/ \E p \in Procs : BatchVerifySessions(p)
    \/ \E p \in Procs : ReceiveBatchRequest(p)
    \/ \E p \in Procs : batch_verify_sessions(p)

SpecBatch == InitBatch /\ [][NextBatch]_vars

----------------------------------------------------------------------------
(* Properties of ledger verification *)

PollOps == {"verify_transaction", "get_transaction_by_session"}

(* C11: a transaction is CONFIRMED only with at least confirmation_blocks  *)
(* confirmations; a poll of a PENDING transaction that has that many       *)
(* leaves it CONFIRMED, and a poll of a PENDING transaction the ledger     *)
(* rejects leaves it FAILED.                                               *)
C11_ConfirmationThreshold ==
    /\ [](\A s \in SessionIds :
            tx[s].status = TX_CONFIRMED => tx[s].confirmations >= confirmation_blocks)
    /\ [][\A p \in Procs :
            (/\ proc'[p] /= proc[p] /\ proc'[p].phase = "done" /\ proc'[p].op \in PollOps
             /\ tx[proc'[p].sid].status = TX_PENDING)
                => LET s == proc'[p].sid IN
                   /\ (proc'[p].cond = "accepted"
                       /\ tx[s].confirmations >= confirmation_blocks)
                          => tx'[s].status = TX_CONFIRMED
                   /\ proc'[p].cond = "rejected" => tx'[s].status = TX_FAILED]_vars

VerifyOps == {"verify_session_integrity", "verify_session_on_blockchain"}

(* A verification that ran with its services in place *)
Verified(r) ==
    r.phase = "done" /\ r.op \in VerifyOps /\ r.arg /= "none"

Returned(r) == r.body.kind = "VerificationResult"

HashMismatch(s) ==
    tx[s] /= NoTx /\ tx[s].session_log.session_hash /= session[s].session_hash

SignatureInvalid(s) ==
    /\ tx[s] /= NoTx
    /\ \/ tx[s].session_log.student_signature /= session[s].student_signature
       \/ tx[s].session_log.senior_signature /= session[s].senior_signature

EnoughConfirmations(s) ==
    tx[s] /= NoTx /\ tx[s].confirmations >= confirmation_blocks

(* verification_details that say more than the literal of the handler *)
NamesReason(details) == details \notin {"", "mock", "mock, public_proof"}

(* C12: a verification that finds a hash mismatch, an invalid signature or *)
(* too few confirmations returns a VerificationResult with the matching    *)
(* flag false and the reason in verification_details; it raises            *)
(* (VerificationError) only when the ledger cannot be reached.             *)
C12_VerifyNeverRaisesForIntegrity ==
    \A p \in Procs :
        Verified(proc[p]) =>
            LET s == proc[p].sid
                r == proc[p] IN
            IF r.cond = "unreachable"
            THEN ~Returned(r) /\ (r.ret = "VerificationError" \/ r.code = HTTP_400)
            ELSE /\ Returned(r)
                 /\ HashMismatch(s)
                      => ~r.body.integrity_check /\ NamesReason(r.body.verification_details)
                 /\ SignatureInvalid(s)
                      => ~r.body.signatures_valid /\ NamesReason(r.body.verification_details)
                 /\ (tx[s] /= NoTx /\ ~EnoughConfirmations(s))
                      => ~r.body.credit_eligible /\ NamesReason(r.body.verification_details)

(* C13: a verification reports credit_eligible exactly when the session's  *)
(* transaction has at least confirmation_blocks confirmations and the      *)
(* session is COMPLETED; all three flags are true for an untampered,       *)
(* confirmed, completed session, and none is true for a session without a  *)
(* transaction.                                                            *)
C13_CreditEligibleExactly ==
    \A p \in Procs :
        (Verified(proc[p]) /\ proc[p].cond /= "unreachable") =>
            LET s == proc[p].sid
                r == proc[p]
                eligible == EnoughConfirmations(s) /\ session[s].status = COMPLETED IN
            /\ Returned(r)
            /\ r.body.credit_eligible <=> eligible
            /\ (eligible /\ ~HashMismatch(s) /\ ~SignatureInvalid(s))
                  => r.body.integrity_check /\ r.body.signatures_valid /\ r.body.credit_eligible
            /\ tx[s] = NoTx
                  => /\ ~r.body.integrity_check
                     /\ ~r.body.signatures_valid
                     /\ ~r.body.credit_eligible

BatchOps == {"batch_verify_sessions_service", "batch_verify_sessions"}

(* C14: a batch verification returns one entry per input id, in input      *)
(* order, duplicates kept; the entry of the id whose verification met a    *)
(* ledger outage, and no other entry, carries an error marker.             *)
C14_BatchOnePerId ==
    \A p \in Procs :
        (proc[p].phase = "done" /\ proc[p].op \in BatchOps /\ proc[p].arg /= "none") =>
            LET b == proc[p].body IN
            /\ b.returned
            /\ Len(b.results) = Len(b.session_ids)
            /\ \A i \in 1..Len(b.session_ids) :
                  /\ b.results[i].session_id = b.session_ids[i]
                  /\ (b.results[i].error_details /= NoValue) <=> (b.session_ids[i] = b.outage)

(***************************************************************************)
(* Arranging a session: the senior's response, scheduling, cancellation.   *)
(***************************************************************************)

(* A senior other than the one the session names *)
OtherSeniorId == "senior2"

Responses == {"approved", "declined"}

(* SessionService.__init__: max_session_duration, in hours *)
max_session_duration == 8

respond_to_session_request(sess, request_id, senior_id, approved, message) ==
    [store |-> sess, ret |-> NoValue]

schedule_session_unguarded(sess, request_id, admin_id) ==
    IF sess[request_id].status = APPROVED
    THEN [store |-> [sess EXCEPT ![request_id].status = SCHEDULED], ret |-> "Session"]
    ELSE [store |-> sess, ret |-> NoValue]

schedule_session(sess, request_id, admin_id) ==
    [store |-> sess, ret |-> NoValue]

(* Bodies of a schedule request, by name; times in hours *)
ScheduleRequests ==
    {"valid", "at_limit", "too_long", "end_equals_start", "end_before_start", "no_end"}

StartTime(body) == 2

EndTime(body) ==
    CASE body = "valid"            -> StartTime(body) + 1
      [] body = "at_limit"         -> StartTime(body) + max_session_duration
      [] body = "too_long"         -> StartTime(body) + max_session_duration + 1
      [] body = "end_equals_start" -> StartTime(body)
      [] body = "end_before_start" -> StartTime(body) - 1
      [] OTHER                     -> NoTime

(* Controllers/schemas.py: SessionSchedule, both datetimes required *)
SessionScheduleValid(body) == StartTime(body) /= NoTime /\ EndTime(body) /= NoTime

(* Models/session.py: Session.validate_end_time; FALSE where it raises *)
validate_end_time(v, start) ==
    ~(v /= NoTime /\ start /= NoTime /\ v <= start)

(* A call by keywords binds only to parameters of those names; otherwise   *)
(* it raises TypeError before the body runs.                               *)
Binds(keywords, parameters) == keywords \subseteq parameters

RespondToSessionRequest(p) ==
    \E s \in SessionIds, u \in {SeniorId, OtherSeniorId, StudentId}, a \in Responses :
        LET r == respond_to_session_request(session, s, u, a = "approved", NoValue) IN
        /\ Free(p)
        /\ session' = r.store
        /\ proc' = [proc EXCEPT ![p] =
                        Done("respond_to_session_request", s, u, a, NoCode, r.ret, NoBody)]
        /\ UNCHANGED OtherSessionVars

ScheduleSession(p) ==
    \E s \in SessionIds, admin_id \in {NoValue, AdminId} :
        LET r == schedule_session(session, s, admin_id) IN
        /\ Free(p)
        /\ session' = r.store
        /\ proc' = [proc EXCEPT ![p] =
                        Done("schedule_session", s, admin_id, NoValue, NoCode, r.ret, NoBody)]
        /\ UNCHANGED OtherSessionVars

ReceiveArrangeRequest(p) ==
    \E s \in SessionIds, u \in Users \cup {OtherSeniorId},
       a \in Responses \cup ScheduleRequests \cup {"reason", ""} :
      \E o \in {"respond_to_session_request_endpoint", "schedule_session_endpoint",
                "cancel_session_endpoint"} :
        /\ Free(p)
        /\ o = "respond_to_session_request_endpoint"
              => u \in {SeniorId, OtherSeniorId} /\ a \in Responses
        /\ o = "schedule_session_endpoint" => u = StudentId /\ a \in ScheduleRequests
        /\ o = "cancel_session_endpoint" => a \in {"reason", ""}
        /\ proc' = [proc EXCEPT ![p] = Pending(o, s, u, a)]
        /\ UNCHANGED <<session, request, tx, account, now>>

respond_to_session_request_endpoint(p) ==
    /\ proc[p].phase = "pending" /\ proc[p].op = "respond_to_session_request_endpoint"
    /\ LET has == "respond_to_session_request" \in SessionServiceMethods
           binds == Binds({"session_id", "senior_id", "approved", "response_message"},
                          {"request_id", "senior_id", "approved", "message"})
           r == respond_to_session_request(session, proc[p].sid, proc[p].user,
                                           proc[p].arg = "approved", NoValue) IN
       IF has /\ binds
       THEN /\ session' = r.store
            /\ proc' = [proc EXCEPT ![p] =
                          Done(proc[p].op, proc[p].sid, proc[p].user, proc[p].arg,
                               EndpointOutcome(has, r.ret), r.ret, NoBody)]
       ELSE /\ session' = session
            /\ proc' = [proc EXCEPT ![p] =
                          Done(proc[p].op, proc[p].sid, proc[p].user, proc[p].arg,
                               HTTP_500, NoValue, NoBody)]
    /\ UNCHANGED OtherSessionVars

schedule_session_endpoint(p) ==
    /\ proc[p].phase = "pending" /\ proc[p].op = "schedule_session_endpoint"
    /\ LET has == "schedule_session" \in SessionServiceMethods
           binds == Binds({"session_id", "user_id", "scheduled_start_time",
                           "scheduled_end_time", "estimated_duration_hours",
                           "special_instructions"},
                          {"request_id", "admin_id"})
           r == schedule_session(session, proc[p].sid, NoValue) IN
       IF ~SessionScheduleValid(proc[p].arg)
       THEN /\ session' = session
            /\ proc' = [proc EXCEPT ![p] =
                          Done(proc[p].op, proc[p].sid, proc[p].user, proc[p].arg,
                               HTTP_422, NoValue, NoBody)]
       ELSE IF has /\ binds
       THEN /\ session' = r.store
            /\ proc' = [proc EXCEPT ![p] =
                          Done(proc[p].op, proc[p].sid, proc[p].user, proc[p].arg,
                               EndpointOutcome(has, r.ret), r.ret, NoBody)]
       ELSE /\ session' = session
            /\ proc' = [proc EXCEPT ![p] =
                          Done(proc[p].op, proc[p].sid, proc[p].user, proc[p].arg,
                               HTTP_500, NoValue, NoBody)]
    /\ UNCHANGED OtherSessionVars

InitArrange ==
    /\ session \in [SessionIds ->
                      {Session(REQUESTED, NoTime, NoTime), Session(APPROVED, NoTime, NoTime),
                       Session(COMPLETED, 1, 2)}
                      \cup {[Session(SCHEDULED, NoTime, NoTime) EXCEPT
                                 !.scheduled_start_time = StartTime(b),
                                 !.scheduled_end_time = EndTime(b)] :
                              b \in {x \in ScheduleRequests :
                                       /\ SessionScheduleValid(x)
                                       /\ validate_end_time(EndTime(x), StartTime(x))}}]
    /\ session["s1"].status \in {REQUESTED, APPROVED}
    /\ session["s2"].status \in {SCHEDULED, COMPLETED}
    /\ request = [s \in SessionIds |-> NoValue]
    /\ tx = [s \in SessionIds |-> NoTx]
    /\ account = CreditAccount(0)
    /\ now = 1
    /\ proc = [p \in Procs |-> Idle]

NextArrange ==
    \E p \in Procs :
        \/ RespondToSessionRequest(p)
        \/ ScheduleSession(p)
        \/ CancelSessionWith(p, Users \cup {OtherSeniorId}, {"reason", ""})
        \/ ReceiveArrangeRequest(p)
        \/ respond_to_session_request_endpoint(p)
        \/ schedule_session_endpoint(p)
        \/ cancel_session_endpoint(p)

SpecArrange == InitArrange /\ [][NextArrange]_vars

(* Properties of arranging *)

WellTimed(start, end) ==
    /\ start /= NoTime /\ end /= NoTime
    /\ end > start
    /\ end - start <= max_session_duration

ScheduleOps == {"schedule_session", "schedule_session_endpoint"}

(* The finished schedule call carried a start and an end that may be scheduled *)
AsksWellTimed(r) ==
    /\ r.op = "schedule_session_endpoint"
    /\ WellTimed(StartTime(r.arg), EndTime(r.arg))

(* C18: a session goes from APPROVED to SCHEDULED only with a start and an *)
(* end time, the end after the start and at most max_session_duration      *)
(* later; a schedule call that does not carry such times does not succeed  *)
(* and leaves the APPROVED session, scheduled times included, as it was.   *)
C18_ScheduleOnlyWellTimed ==
    [][\A s \in SessionIds :
          /\ (session[s].status = APPROVED /\ session'[s].status = SCHEDULED) =>
                WellTimed(session'[s].scheduled_start_time,
                          session'[s].scheduled_end_time)
          /\ \A p \in Procs :
                (/\ Finishes(p, ScheduleOps, s)
                 /\ session[s].status = APPROVED
                 /\ ~AsksWellTimed(proc'[p])) =>
                    /\ ~Succeeded(proc'[p])
                    /\ session'[s] = session[s]]_vars

(* The service and the endpoint have been asked to schedule an APPROVED    *)
(* session, the endpoint with a session longer than the maximum.           *)
C18_Witness ==
    \E s \in SessionIds :
        /\ session[s].status = APPROVED
        /\ proc["p1"].phase = "done" /\ proc["p1"].op = "schedule_session"
        /\ proc["p1"].sid = s
        /\ proc["p2"].phase = "done" /\ proc["p2"].op = "schedule_session_endpoint"
        /\ proc["p2"].sid = s /\ proc["p2"].arg = "too_long"

RespondOps == {"respond_to_session_request", "respond_to_session_request_endpoint"}

(* C19: a response to a REQUESTED session by the senior it names makes it  *)
(* APPROVED when approved and CANCELLED when declined; a response by       *)
(* anyone else is refused and leaves the session as it was.                *)
C19_OnlyTargetedSeniorResponds ==
    [][\A p \in Procs, s \in SessionIds :
          (Finishes(p, RespondOps, s) /\ session[s].status = REQUESTED) =>
              IF proc'[p].user = SeniorId
              THEN session'[s].status =
                       IF proc'[p].arg = "approved" THEN APPROVED ELSE CANCELLED
              ELSE /\ ~Succeeded(proc'[p])
                   /\ session'[s] = session[s]]_vars

CancelOps == {"cancel_session", "cancel_session_endpoint"}

(* C20: a cancellation with a non-empty reason by the student, the senior  *)
(* or an admin makes a session that is neither COMPLETED nor CANCELLED     *)
(* CANCELLED; any other cancellation leaves the status as it was.          *)
C20_CancelByParticipantOrAdmin ==
    [][\A p \in Procs, s \in SessionIds :
          Finishes(p, CancelOps, s) =>
              IF /\ proc'[p].arg /= ""
                 /\ proc'[p].user \in Users
                 /\ session[s].status \notin TerminalStatus
              THEN session'[s].status = CANCELLED
              ELSE session'[s].status = session[s].status]_vars

(* The service method of the finished request was reached and returned a   *)
(* falsy value (cancel is the session endpoint whose call binds).          *)
ReturnedFalsy(r) ==
    /\ r.phase = "done" /\ r.op = "cancel_session_endpoint"
    /\ SessionCancelValid(r.arg)
    /\ ~Truthy(r.ret)

(* C26: a session endpoint whose service call came back with a falsy       *)
(* result answers 400; it answers 500 only when the call raised.           *)
C26_FalsyResultAnswers400 ==
    \A p \in Procs :
        /\ ReturnedFalsy(proc[p]) => proc[p].code = HTTP_400
        /\ (proc[p].phase = "done" /\ proc[p].code = HTTP_500) => ~ReturnedFalsy(proc[p])

(***************************************************************************)
(* Controllers/dependencies.py: authentication, role and validation        *)
(* dependencies.  A dependency either returns a value or raises an         *)
(* HTTPException with a status code.                                       *)
(***************************************************************************)

MaxPage == 3
MaxLimit == 3

HTTP_401 == "401"
HTTP_403 == "403"

Return(v) == [code |-> NoCode, value |-> v]
Raise(c) == [code |-> c, value |-> NoBody]

(* Models/user.py: Student, Senior, Admin; user_type is what                *)
(* get_user_type() returns, admin_role is set for an Admin only.           *)
(* Config.use_enum_values: a status or admin_role given to the             *)
(* constructor or assigned later is stored as the enum's value, a str;     *)
(* the default status, which is not validated, stays the enum member       *)
(* UserStatus.PENDING.                                                     *)
BaseUser(user_id, user_type, user_status, admin_role) ==
    [kind |-> "user", user_id |-> user_id, user_type |-> user_type,
     status |-> user_status, admin_role |-> admin_role]

UserStatuses == {"UserStatus.PENDING", "approved", "suspended"}

Accounts ==
    {BaseUser(StudentId, "student", s, NoValue) : s \in UserStatuses}
    \cup {BaseUser(SeniorId, "senior", s, NoValue) : s \in UserStatuses}
    \cup {BaseUser(AdminId, "admin", s, r) :
             s \in UserStatuses, r \in {"super_admin", "moderator"}}

(* v.value: the value of an enum member; a str has no such attribute *)
EnumValue(v) ==
    IF v = "UserStatus.PENDING" THEN Return("pending") ELSE Raise("AttributeError")

(* AuthenticationService.validate_token, body `pass`: None *)
validate_token(token) == NoBody

(* What auth_service.validate_token may do in get_current_user: the        *)
(* repository's own method, a method that raises, a method that finds the  *)
(* user of the token.                                                      *)
Validations == {validate_token("token"), [kind |-> "raises"]} \cup Accounts

get_current_user_unwrapped(auth_service, validated) ==
    IF auth_service = NoValue THEN Raise(HTTP_500)
    ELSE IF validated.kind = "raises" THEN Raise(HTTP_500)
    ELSE IF validated.kind /= "user" THEN Raise(HTTP_401)
    ELSE Return(validated)

(* try: ... except Exception: raise HTTPException(401).  The exceptions    *)
(* raised inside the try, the 500 and the 401 included, are caught.        *)
get_current_user(auth_service, validated) ==
    LET tried == IF auth_service = NoValue THEN Raise(HTTP_500)
                 ELSE IF validated.kind = "raises" THEN Raise("Exception")
                 ELSE IF validated.kind /= "user" THEN Raise(HTTP_401)
                 ELSE Return(validated) IN
    IF tried.code /= NoCode THEN Raise(HTTP_401) ELSE tried

(* Each dependency below takes the outcome of the dependency it Depends    *)
(* on; an exception raised there ends the resolution.                      *)
(* current_user.status.value == "suspended"; the AttributeError is not     *)
(* caught and the request is answered 500.                                 *)
get_current_active_user(current_user) ==
    IF current_user.code /= NoCode THEN current_user
    ELSE LET status_value == EnumValue(current_user.value.status) IN
         IF status_value.code /= NoCode THEN Raise(HTTP_500)
         ELSE IF status_value.value = "suspended" THEN Raise(HTTP_403)
         ELSE current_user

get_current_student(current_user) ==
    IF current_user.code /= NoCode THEN current_user
    ELSE IF current_user.value.user_type /= "student" THEN Raise(HTTP_403)
    ELSE current_user

get_current_senior(current_user) ==
    IF current_user.code /= NoCode THEN current_user
    ELSE IF current_user.value.user_type /= "senior" THEN Raise(HTTP_403)
    ELSE current_user

get_current_admin(current_user) ==
    IF current_user.code /= NoCode THEN current_user
    ELSE IF current_user.value.user_type /= "admin" THEN Raise(HTTP_403)
    ELSE current_user

(* current_admin.admin_role != AdminRole.SUPER_ADMIN: the stored str is    *)
(* compared with the enum member.                                          *)
get_super_admin(current_admin) ==
    IF current_admin.code /= NoCode THEN current_admin
    ELSE IF current_admin.value.admin_role /= "AdminRole.SUPER_ADMIN" THEN Raise(HTTP_403)
    ELSE current_admin

RoleDependencies ==
    {"get_current_active_user", "get_current_student", "get_current_senior",
     "get_current_admin", "get_super_admin"}

(* The chain of Depends(...) behind each dependency *)
Dependency(name, current_user) ==
    LET active == get_current_active_user(current_user) IN
    CASE name = "get_current_active_user" -> active
      [] name = "get_current_student"     -> get_current_student(active)
      [] name = "get_current_senior"      -> get_current_senior(active)
      [] name = "get_current_admin"       -> get_current_admin(active)
      [] name = "get_super_admin"         -> get_super_admin(get_current_admin(active))

validate_user_access_open(target_user_id, current_user) == Return(target_user_id)

validate_user_access(target_user_id, current_user) ==
    IF current_user.user_id = target_user_id THEN Return(target_user_id)
    ELSE IF current_user.user_type = "admin" THEN Return(target_user_id)
    ELSE Raise(HTTP_403)

Pagination(limit, offset, page) ==
    [kind |-> "pagination", limit |-> limit, offset |-> offset, page |-> page]

validate_pagination_from_page(page, limit, max_limit) ==
    IF page < 1 \/ limit < 1 \/ limit > max_limit THEN Raise(HTTP_400)
    ELSE Return(Pagination(limit, page * limit, page))

validate_pagination(page, limit, max_limit) ==
    IF page < 1 THEN Raise(HTTP_400)
    ELSE IF limit < 1 THEN Raise(HTTP_400)
    ELSE IF limit > max_limit THEN Raise(HTTP_400)
    ELSE Return(Pagination(limit, (page - 1) * limit, page))

(* get_current_student_user() / get_current_senior_user() /                *)
(* get_current_admin_user(): each returns the Depends(...) object itself.  *)
ConvenienceDependency(name) == [kind |-> "Depends", dependency |-> name]

(* The endpoints declared with Depends(<convenience function>) and the     *)
(* dependency each function wraps.                                         *)
RoleEndpoints ==
    [create_session_request |-> "get_current_student",
     respond_to_session_request |-> "get_current_senior",
     make_credit_adjustment |-> "get_current_admin"]

OtherAuthVars == <<session, request, tx, account, now>>

(* The dependencies are exercised in the request slot p1. *)
GetCurrentUser(p) ==
    \E auth_service \in {NoValue, "AuthenticationService"}, validated \in Validations :
        LET r == get_current_user(auth_service, validated) IN
        /\ p = "p1"
        /\ proc' = [proc EXCEPT ![p] =
              [Done("get_current_user", NoValue, NoValue, auth_service, r.code,
                        IF r.code = NoCode THEN r.value.user_id ELSE NoValue,
                        validated)
                   EXCEPT !.cond = IF r.code = NoCode THEN r.value.kind ELSE NoValue]]
        /\ UNCHANGED OtherAuthVars

ResolveDependency(p) ==
    \E name \in RoleDependencies, u \in Accounts :
        LET r == Dependency(name, get_current_user("AuthenticationService", u)) IN
        /\ p = "p1"
        /\ proc' = [proc EXCEPT ![p] =
              Done(name, NoValue, NoValue, NoValue, r.code,
                       IF r.code = NoCode THEN r.value.user_id ELSE NoValue, u)]
        /\ UNCHANGED OtherAuthVars

ValidateUserAccess(p) ==
    \E target_user_id \in Users, u \in Accounts :
        LET r == validate_user_access(target_user_id, u) IN
        /\ p = "p1"
        /\ proc' = [proc EXCEPT ![p] =
              Done("validate_user_access", NoValue, NoValue, target_user_id, r.code,
                       IF r.code = NoCode THEN r.value ELSE NoValue, u)]
        /\ UNCHANGED OtherAuthVars

ValidatePagination(p) ==
    \E page \in 0..MaxPage, limit \in 0..(MaxLimit + 1), max_limit \in 1..MaxLimit :
        LET r == validate_pagination(page, limit, max_limit) IN
        /\ p = "p1"
        /\ proc' = [proc EXCEPT ![p] =
              Done("validate_pagination", NoValue, NoValue, NoValue, r.code, NoValue,
                   [kind |-> "validate_pagination", page |-> page, limit |-> limit,
                    max_limit |-> max_limit, value |-> r.value])]
        /\ UNCHANGED OtherAuthVars

(* A role-restricted handler: current_<role> is what the convenience       *)
(* function returned; the handler reads current_<role>.user_id inside its  *)
(* try, before the service is called.                                      *)
RoleRestrictedEndpoint(p) ==
    \E endpoint \in DOMAIN RoleEndpoints, caller \in Accounts \cup {NoBody} :
        LET current == ConvenienceDependency(RoleEndpoints[endpoint])
            called == current.kind = "user" IN
        /\ p = "p1"
        /\ proc' = [proc EXCEPT ![p] =
              [Done(endpoint, NoValue, NoValue, NoValue,
                        IF called THEN EndpointOutcome(TRUE, NoValue) ELSE HTTP_500,
                        NoValue, caller)
                   EXCEPT !.cond = IF called THEN "called" ELSE "not_called"]]
        /\ UNCHANGED OtherAuthVars

InitAuth ==
    /\ session = [s \in SessionIds |-> Session(REQUESTED, NoTime, NoTime)]
    /\ request = [s \in SessionIds |-> NoValue]
    /\ tx = [s \in SessionIds |-> NoTx]
    /\ account = CreditAccount(0)
    /\ now = 1
    /\ proc = [p \in Procs |-> Idle]

NextAuth ==
    \E p \in Procs :
        \/ GetCurrentUser(p)
        \/ ResolveDependency(p)
        \/ ValidateUserAccess(p)
        \/ ValidatePagination(p)
        \/ RoleRestrictedEndpoint(p)

SpecAuth == InitAuth /\ [][NextAuth]_vars

(* Properties of the dependencies *)

Finished(p, ops) == proc[p].phase = "done" /\ proc[p].op \in ops

(* C28: get_current_user either returns the user validate_token produced   *)
(* or raises 401: it returns no missing user, and a failure inside it      *)
(* (no user, an exception, no authentication service) gives 401.           *)
C28_UserOr401 ==
    \A p \in Procs :
        Finished(p, {"get_current_user"}) =>
            IF proc[p].arg /= NoValue /\ proc[p].body.kind = "user"
            THEN /\ proc[p].code = NoCode
                 /\ proc[p].cond = "user"
                 /\ proc[p].ret = proc[p].body.user_id
            ELSE proc[p].code = HTTP_401

(* get_current_user has run with no authentication service at hand *)
C28_Witness ==
    \E p \in Procs :
        /\ Finished(p, {"get_current_user"})
        /\ proc[p].arg = NoValue
        /\ proc[p].body.kind = "user"

(* The user type a role dependency asks for *)
PassesRole(name, u) ==
    CASE name = "get_current_active_user" -> TRUE
      [] name = "get_current_student"     -> u.user_type = "student"
      [] name = "get_current_senior"      -> u.user_type = "senior"
      [] name = "get_current_admin"       -> u.user_type = "admin"
      [] name = "get_super_admin"         -> u.user_type = "admin" /\ u.admin_role = "super_admin"

(* C27: a role dependency returns the user exactly when the user is not    *)
(* suspended and has the type (and, for get_super_admin, the admin role)   *)
(* it asks for; every other user, a suspended one whatever the type or     *)
(* role, is answered 403.                                                  *)
C27_RoleChain ==
    \A p \in Procs :
        Finished(p, RoleDependencies) =>
            IF proc[p].body.status /= "suspended" /\ PassesRole(proc[p].op, proc[p].body)
            THEN proc[p].code = NoCode /\ proc[p].ret = proc[p].body.user_id
            ELSE proc[p].code = HTTP_403

(* C29: validate_user_access returns the target id exactly for the user    *)
(* with that id and for an admin, and raises 403 for anyone else.          *)
C29_OwnDataOrAdmin ==
    \A p \in Procs :
        Finished(p, {"validate_user_access"}) =>
            IF proc[p].body.user_id = proc[p].arg \/ proc[p].body.user_type = "admin"
            THEN proc[p].code = NoCode /\ proc[p].ret = proc[p].arg
            ELSE proc[p].code = HTTP_403

(* A student has asked for the senior's data *)
C29_Witness ==
    \E p \in Procs :
        /\ Finished(p, {"validate_user_access"})
        /\ proc[p].body.user_type = "student"
        /\ proc[p].arg = SeniorId

(* C30: validate_pagination raises 400 for page < 1, limit < 1 or          *)
(* limit > max_limit; otherwise it returns limit and page as given and     *)
(* offset = (page - 1) * limit, which is not negative, is a multiple of    *)
(* limit, and is one limit below the offset of the next page.              *)
C30_PaginationOffsets ==
    \A p \in Procs :
        Finished(p, {"validate_pagination"}) =>
            LET b == proc[p].body IN
            IF b.page < 1 \/ b.limit < 1 \/ b.limit > b.max_limit
            THEN proc[p].code = HTTP_400
            ELSE /\ proc[p].code = NoCode
                 /\ b.value.limit = b.limit
                 /\ b.value.page = b.page
                 /\ b.value.offset = (b.page - 1) * b.limit
                 /\ b.value.offset >= 0
                 /\ b.value.offset % b.limit = 0
                 /\ validate_pagination(b.page + 1, b.limit, b.max_limit).value.offset
                       = b.value.offset + b.limit

(* A second page of two items has been asked for *)
C30_Witness ==
    \E p \in Procs :
        /\ Finished(p, {"validate_pagination"})
        /\ proc[p].body.page = 2 /\ proc[p].body.limit = 2
        /\ proc[p].code = NoCode

(* The caller is authenticated, not suspended and of the role the          *)
(* endpoint is restricted to.                                              *)
Entitled(endpoint, caller) ==
    /\ caller.kind = "user"
    /\ caller.status /= "suspended"
    /\ PassesRole(RoleEndpoints[endpoint], caller)

(* C25: a role-restricted handler calls its service only for a caller of   *)
(* the required role, and answers every other caller 401 or 403.           *)
C25_RoleRestrictedEndpoints ==
    \A p \in Procs :
        Finished(p, DOMAIN RoleEndpoints) =>
            /\ proc[p].cond = "called" => Entitled(proc[p].op, proc[p].body)
            /\ ~Entitled(proc[p].op, proc[p].body) => proc[p].code \in {HTTP_401, HTTP_403}

====
